---- MODULE Spec2Model ----
(***************************************************************************)
(* RpcProvider (src/src/provider/rpc.ts): the endpoint dispatcher          *)
(* (fetchEndpoint / errorHandler), the constructor and the transaction     *)
(* confirmation poller (waitForTransaction).                               *)
(*                                                                         *)
(* JavaScript values are tagged records, so that values of different JS    *)
(* types can be compared: [t |-> "undefined"], [t |-> "null"],             *)
(* [t |-> "num", n |-> 0], [t |-> "str", s |-> ""], [t |-> "bool", ...],   *)
(* [t |-> "obj", ...], [t |-> "Error", ...].                               *)
(***************************************************************************)
EXTENDS Integers, Sequences, FiniteSets, TLC

VARIABLES
    optRetries,   \* the `retries` option handed to the constructor
    this_retries, \* this.retries
    chainId,      \* this.chainId
    chainIdFetch, \* the constructor's un-awaited getChainId(): "inflight" | "settled" | "rejected"
    call,         \* transport outcome of the latest caller-issued fetchEndpoint call
    reply,        \* what that fetchEndpoint call did (return / throw)
    pc,           \* position of the waitForTransaction call
    retries,      \* waitForTransaction's local `retries`
    onchain,      \* waitForTransaction's local `onchain`
    exchange,     \* transport outcome of the session's latest getTransactionReceipt
    res,          \* what that getTransactionReceipt did (return receipt / throw)
    outcome,      \* how the waitForTransaction promise settled
    waits,        \* number of wait(retryInterval) suspensions begun
    fetches,      \* number of getTransactionReceipt calls issued
    allPending,   \* history: every receipt fetch so far returned status PENDING
    allTransient, \* history: every receipt fetch so far failed with an error that
                  \* carries no terminal status as its message
    callsDone,    \* number of caller-issued fetchEndpoint calls that have settled
    exchanged,    \* number of this.fetch transport exchanges performed so far
    other         \* a second, concurrent waitForTransaction call on the same client:
                  \* its position, locals, latest fetch result and outcome

vars == <<optRetries, this_retries, chainId, chainIdFetch, call, reply, pc, retries,
          onchain, exchange, res, outcome, waits, fetches, allPending, allTransient,
          callsDone, exchanged, other>>

client == <<optRetries, this_retries>>
chain == <<chainId, chainIdFetch>>
dispatcher == <<call, reply, callsDone>>
session == <<pc, retries, onchain, exchange, res, outcome, waits, fetches, allPending,
             allTransient>>

----------------------------------------------------------------------------
(* Bounds *)

\* a wait session is followed for at most this many receipt fetches
MaxFetches == 6

\* largest retry budget a caller configures explicitly
MaxConfiguredRetries == 3

\* number of caller-issued endpoint calls that are followed
MaxCalls == 2

----------------------------------------------------------------------------
(* JavaScript values *)

Undefined == [t |-> "undefined"]
Null == [t |-> "null"]
Num(n) == [t |-> "num", n |-> n]
Str(s) == [t |-> "str", s |-> s]
Bool(b) == [t |-> "bool", b |-> b]

\* ToBoolean: what `if (v)` and `v || d` test
Truthy(v) ==
    CASE v.t = "undefined" -> FALSE
      [] v.t = "null" -> FALSE
      [] v.t = "num" -> v.n # 0
      [] v.t = "str" -> v.s # ""
      [] v.t = "bool" -> v.b
      [] OTHER -> TRUE

\* `${v}` in a template literal
TemplateString(v) ==
    CASE v.t = "undefined" -> "undefined"
      [] v.t = "null" -> "null"
      [] v.t = "num" -> ToString(v.n)
      [] v.t = "str" -> v.s
      [] v.t = "bool" -> (IF v.b THEN "true" ELSE "false")
      [] OTHER -> "[object Object]"

\* v.f for a property f that may be missing; reading a property of a
\* primitive yields undefined
Prop(v, f) == IF f \in DOMAIN v THEN v[f] ELSE Undefined

\* v?.f
OptProp(v, f) == IF v.t \in {"undefined", "null"} THEN Undefined ELSE Prop(v, f)

\* new Error(message), optionally with a `response` property attached
NewError(by, message, response) ==
    [t |-> "Error", by |-> by, message |-> message, response |-> response]

IsError(e) == e.t = "Error"

Return(v) == [kind |-> "return", value |-> v]
Throw(e) == [kind |-> "throw", error |-> e]
NotCalled == [kind |-> "none"]

----------------------------------------------------------------------------
(* Endpoint dispatcher *)

DefaultRetries == 200

\* constructor: this.retries = retries || 200
constructor_retries(opt) == IF Truthy(opt) THEN opt.n ELSE DefaultRetries

\* errorHandler(error): throws `${code}: ${message}` when error is truthy.
\* [threw |-> FALSE] when it returns normally.
errorHandler(error) ==
    IF Truthy(error)
    THEN [threw |-> TRUE,
          error |-> NewError("errorHandler",
                             TemplateString(Prop(error, "code")) \o ": "
                                 \o TemplateString(Prop(error, "message")),
                             Undefined)]
    ELSE [threw |-> FALSE]

\* variant: the catch block hands the caught error itself to errorHandler
fetchEndpoint_catch_rehandle(error) ==
    LET h == errorHandler(IF IsError(error)
                          THEN [t |-> "obj", message |-> Str(error.message)]
                          ELSE error)
    IN  IF h.threw THEN Throw(h.error) ELSE Throw(error)

\* the catch block of fetchEndpoint: errorHandler(error?.response?.data); throw error
fetchEndpoint_catch(error) ==
    LET h == errorHandler(OptProp(OptProp(error, "response"), "data"))
    IN  IF h.threw THEN Throw(h.error) ELSE Throw(error)

\* variant: a failed exchange is attempted a second time
fetchEndpoint_fetches_retry(x) == IF x.k = "failure" THEN 2 ELSE 1

\* the number of this.fetch exchanges one fetchEndpoint call performs when its
\* exchange ends as x: the single call in the try block; the catch block only
\* rethrows
fetchEndpoint_fetches(x) == 1

\* variant: the decoded body is returned instead of its result member
fetchEndpoint_wholeBody(x) ==
    IF x.k = "envelope"
    THEN LET h == errorHandler(x.error)
         IN  IF h.threw THEN fetchEndpoint_catch(h.error)
             ELSE Return([t |-> "obj", error |-> x.error, result |-> x.result])
    ELSE fetchEndpoint_catch(x.thrown)

\* fetchEndpoint, as a function of what the transport exchange (this.fetch
\* and rawResult.json()) produced:
\*   [k |-> "envelope", error |-> v, result |-> v]  the decoded body
\*   [k |-> "failure", thrown |-> e]                fetch or json() threw e
fetchEndpoint(x) ==
    IF x.k = "envelope"
    THEN LET h == errorHandler(x.error)
         IN  IF h.threw THEN fetchEndpoint_catch(h.error) ELSE Return(x.result)
    ELSE fetchEndpoint_catch(x.thrown)

Envelope(error, result) == [k |-> "envelope", error |-> error, result |-> result]
Failure(e) == [k |-> "failure", thrown |-> e]

\* the `error` member of a decoded response body
ErrorFields ==
    {Undefined, Null, Num(0), Str(""), Bool(FALSE), Str("boom"),
     [t |-> "obj", code |-> Num(21), message |-> Str("Invalid params")],
     [t |-> "obj", code |-> Num(-32601), message |-> Str("Method not found")],
     [t |-> "obj", code |-> Num(0), message |-> Str("")],
     [t |-> "obj", message |-> Str("REJECTED")]}

\* the `result` member of a decoded response body, for a caller-issued call
Results == {Undefined, Num(7), Str("0x534e5f474f45524c49")}

\* what fetch or json() can throw
TransportErrors ==
    {NewError("fetch", "connect ECONNREFUSED", Undefined),
     NewError("json", "Unexpected token < in JSON", Undefined),
     NewError("fetch", "REJECTED", Undefined),
     NewError("fetch", "Bad Gateway", [t |-> "obj"]),
     NewError("fetch", "Bad Gateway",
              [t |-> "obj", data |-> [t |-> "obj", code |-> Num(502),
                                      message |-> Str("Bad Gateway")]]),
     NewError("fetch", "Request failed",
              [t |-> "obj", data |-> [t |-> "obj", code |-> Num(21),
                                      message |-> Str("Invalid params")]]),
     NewError("fetch", "Request failed", [t |-> "obj", data |-> Str("")]),
     Null}

Exchanges ==
    {Envelope(e, r) : e \in ErrorFields, r \in Results} \cup {Failure(e) : e \in TransportErrors}

----------------------------------------------------------------------------
(* Transaction confirmation poller *)

\* variants of the success list: PENDING left out; RECEIVED added
successStates_noPending == {"ACCEPTED_ON_L1", "ACCEPTED_ON_L2"}
successStates_withReceived == {"ACCEPTED_ON_L1", "ACCEPTED_ON_L2", "PENDING", "RECEIVED"}

successStates == {"ACCEPTED_ON_L1", "ACCEPTED_ON_L2", "PENDING"}
errorStates == {"REJECTED", "NOT_RECEIVED"}

\* the statuses a receipt can carry
TransactionStatus ==
    {"RECEIVED", "PENDING", "ACCEPTED_ON_L2", "ACCEPTED_ON_L1", "REJECTED", "NOT_RECEIVED",
     "UNKNOWN"}

TimeoutMessage == "waitForTransaction timedout with retries"

TxHash == "0x1"

Receipt(status) == [t |-> "obj", transaction_hash |-> TxHash, status |-> status]

\* responseParser.parseGetTransactionReceiptResponse: keeps the receipt's
\* transaction hash and status
parseGetTransactionReceiptResponse(r) ==
    [t |-> "obj", transaction_hash |-> r.transaction_hash, status |-> r.status]

\* getTransactionReceipt: fetchEndpoint(...).then(parse)
getTransactionReceipt(x) ==
    LET r == fetchEndpoint(x)
    IN  IF r.kind = "return" THEN Return(parseGetTransactionReceiptResponse(r.value)) ELSE r

\* transport outcomes of a receipt fetch
ReceiptExchanges ==
    {Envelope(Undefined, Receipt(st)) : st \in TransactionStatus}
    \cup {Envelope([t |-> "obj", code |-> Num(25), message |-> Str("Transaction hash not found")],
                   Undefined),
          Envelope([t |-> "obj", code |-> Num(25), message |-> Str("Transaction hash not found")],
                   Receipt("REJECTED"))}
    \cup {Failure(e) : e \in {NewError("fetch", "connect ECONNREFUSED", Undefined),
                              NewError("fetch", "REJECTED", Undefined),
                              NewError("fetch", "Request failed",
                                       [t |-> "obj", data |-> [t |-> "obj", code |-> Num(21),
                                                               message |-> Str("Invalid params")]]),
                              Null}}

\* the try block of one loop iteration, given what getTransactionReceipt did:
\* what it assigns to onchain and what, if anything, reaches the catch block
waitForTransaction_try(r) ==
    IF r.kind = "throw"
    THEN [onchain |-> FALSE, threw |-> TRUE, error |-> r.error]
    ELSE IF r.value.status \in successStates
         THEN [onchain |-> TRUE, threw |-> FALSE]
         ELSE IF r.value.status \in errorStates
              THEN [onchain |-> FALSE, threw |-> TRUE,
                    error |-> NewError("waitForTransaction", r.value.status, r.value)]
              ELSE [onchain |-> FALSE, threw |-> FALSE]

\* variant: the budget test comes before the terminal-status test
waitForTransaction_catch_timeoutFirst(error, n) ==
    IF n = 0
    THEN Throw(NewError("waitForTransaction", TimeoutMessage, Undefined))
    ELSE IF IsError(error) /\ error.message \in errorStates
         THEN Throw(error)
         ELSE NotCalled

\* variant: with the budget used up the caught error is thrown on
waitForTransaction_catch_lastError(error, n) ==
    IF IsError(error) /\ error.message \in errorStates
    THEN Throw(error)
    ELSE IF n = 0 THEN Throw(error) ELSE NotCalled

\* the catch block of one loop iteration: rethrow a terminal-status error,
\* throw the timeout when retries === 0, otherwise swallow
waitForTransaction_catch(error, n) ==
    IF IsError(error) /\ error.message \in errorStates
    THEN Throw(error)
    ELSE IF n = 0
         THEN Throw(NewError("waitForTransaction", TimeoutMessage, Undefined))
         ELSE NotCalled

\* variants of the decrement: skipped once onchain is set; applied to
\* this.retries instead of a local copy
waitForTransaction_decrement_unlessOnchain(local, shared, isOnchain) ==
    [retries |-> IF isOnchain THEN local ELSE local - 1, this_retries |-> shared]
waitForTransaction_decrement_shared(local, shared, isOnchain) ==
    [retries |-> shared - 1, this_retries |-> shared - 1]

\* `retries -= 1` at the end of every iteration that did not throw: it acts on
\* the local copy made by `let { retries } = this` and leaves this.retries alone
waitForTransaction_decrement(local, shared, isOnchain) ==
    [retries |-> local - 1, this_retries |-> shared]

\* variant: the function ends with `return res`
waitForTransaction_result_receipt(r) == Return(r.value)

\* what the function resolves with after the final wait (it has no return statement)
waitForTransaction_result(r) == Return(Undefined)

----------------------------------------------------------------------------
(* State machine *)

RetryOptions == {Undefined} \cup {Num(n) : n \in 0..MaxConfiguredRetries}

NoExchange == [k |-> "none"]

\* transport outcomes of the constructor's chain-id fetch
ChainIdExchanges ==
    {Envelope(Undefined, Str("0x534e5f474f45524c49")),
     Failure(NewError("fetch", "connect ECONNREFUSED", Undefined))}

\* new RpcProvider({nodeUrl, retries}): the state when the constructor returns,
\* with getChainId() still in flight
Init ==
    /\ optRetries \in RetryOptions
    /\ this_retries = constructor_retries(optRetries)
    /\ chainId = Undefined
    /\ chainIdFetch = "inflight"
    /\ call = NoExchange
    /\ reply = NotCalled
    /\ pc = "idle"
    /\ retries = 0
    /\ onchain = FALSE
    /\ exchange = NoExchange
    /\ res = NotCalled
    /\ outcome = NotCalled
    /\ waits = 0
    /\ fetches = 0
    /\ allPending = TRUE
    /\ allTransient = TRUE
    /\ callsDone = 0
    /\ exchanged = 0
    /\ other = [pc |-> "idle", retries |-> 0, onchain |-> FALSE, res |-> NotCalled,
                outcome |-> NotCalled, fetches |-> 0]

\* the constructor's getChainId().then(chainId => this.chainId = chainId) settles
getChainId_settles(x) ==
    /\ chainIdFetch = "inflight"
    /\ LET r == fetchEndpoint(x)
       IN  IF r.kind = "return"
           THEN chainId' = r.value /\ chainIdFetch' = "fulfilled"
           ELSE chainId' = chainId /\ chainIdFetch' = "rejected"
    /\ exchanged' = exchanged + fetchEndpoint_fetches(x)
    /\ UNCHANGED <<client, dispatcher, session, other>>

\* a caller-issued endpoint call (getBlockNumber, getSyncingStats, ...) runs
\* fetchEndpoint to completion on the transport outcome x
callEndpoint(x) ==
    /\ callsDone < MaxCalls
    /\ call' = x
    /\ reply' = fetchEndpoint(x)
    /\ callsDone' = callsDone + 1
    /\ exchanged' = exchanged + fetchEndpoint_fetches(x)
    /\ UNCHANGED <<client, chain, session, other>>

\* variant: the first receipt fetch is issued without a wait before it
waitForTransaction_call_fetchFirst ==
    /\ pc = "idle"
    /\ retries' = this_retries
    /\ onchain' = FALSE
    /\ fetches' = fetches + 1
    /\ pc' = "fetch"
    /\ UNCHANGED <<client, chain, dispatcher, other, exchange, res, outcome, waits, allPending,
                   allTransient, exchanged>>

\* waitForTransaction is called: let { retries } = this; onchain = false;
\* the loop is entered and suspends in the first wait(retryInterval)
waitForTransaction_call ==
    /\ pc = "idle"
    /\ retries' = this_retries
    /\ onchain' = FALSE
    /\ waits' = waits + 1
    /\ pc' = "wait"
    /\ UNCHANGED <<client, chain, dispatcher, other, exchange, res, outcome, fetches, allPending,
                   allTransient, exchanged>>

\* wait(retryInterval) in the loop resolves; getTransactionReceipt(txHash) is issued
wait_resolves ==
    /\ pc = "wait"
    /\ fetches < MaxFetches
    /\ fetches' = fetches + 1
    /\ pc' = "fetch"
    /\ UNCHANGED <<client, chain, dispatcher, other, retries, onchain, exchange, res, outcome, waits,
                   allPending, allTransient, exchanged>>

\* getTransactionReceipt settles on the transport outcome x: the rest of the
\* iteration (try, catch, retries -= 1, the loop test) runs up to the next wait
getTransactionReceipt_settles(x) ==
    /\ pc = "fetch"
    /\ LET r == getTransactionReceipt(x)
           t == waitForTransaction_try(r)
           c == IF t.threw THEN waitForTransaction_catch(t.error, retries) ELSE NotCalled
           d == waitForTransaction_decrement(retries, this_retries, t.onchain)
       IN  /\ exchange' = x
           /\ res' = r
           /\ exchanged' = exchanged + fetchEndpoint_fetches(x)
           /\ allPending' = (allPending /\ r.kind = "return" /\ r.value.status = "PENDING")
           /\ allTransient' = (allTransient /\ r.kind = "throw"
                                  /\ ~(IsError(r.error) /\ r.error.message \in errorStates))
           /\ IF c.kind = "throw"
              THEN /\ outcome' = c
                   /\ pc' = "done"
                   /\ UNCHANGED <<retries, this_retries, onchain, waits>>
              ELSE /\ retries' = d.retries
                   /\ this_retries' = d.this_retries
                   /\ onchain' = t.onchain
                   /\ waits' = waits + 1
                   /\ pc' = IF t.onchain THEN "finalwait" ELSE "wait"
                   /\ outcome' = outcome
    /\ UNCHANGED <<optRetries, chain, dispatcher, other, fetches>>

\* variant: a second wait follows the one after the loop
finalWait_resolves_waitsAgain ==
    /\ pc = "finalwait"
    /\ outcome' = waitForTransaction_result(res)
    /\ waits' = waits + 1
    /\ pc' = "done"
    /\ UNCHANGED <<client, chain, dispatcher, other, retries, onchain, exchange, res, fetches,
                   allPending, allTransient, exchanged>>

\* the wait(retryInterval) after the loop resolves and the function returns
finalWait_resolves ==
    /\ pc = "finalwait"
    /\ outcome' = waitForTransaction_result(res)
    /\ pc' = "done"
    /\ UNCHANGED <<client, chain, dispatcher, other, retries, onchain, exchange, res, waits, fetches,
                   allPending, allTransient, exchanged>>

\* the second waitForTransaction call, step by step as the first
waitForTransaction2_call ==
    /\ other.pc = "idle"
    /\ other' = [other EXCEPT !.pc = "wait", !.retries = this_retries, !.onchain = FALSE]
    /\ UNCHANGED <<client, chain, dispatcher, session, exchanged>>

wait2_resolves ==
    /\ other.pc = "wait"
    /\ other.fetches < MaxFetches
    /\ other' = [other EXCEPT !.pc = "fetch", !.fetches = other.fetches + 1]
    /\ UNCHANGED <<client, chain, dispatcher, session, exchanged>>

getTransactionReceipt2_settles(x) ==
    /\ other.pc = "fetch"
    /\ LET r == getTransactionReceipt(x)
           t == waitForTransaction_try(r)
           c == IF t.threw THEN waitForTransaction_catch(t.error, other.retries) ELSE NotCalled
           d == waitForTransaction_decrement(other.retries, this_retries, t.onchain)
       IN  /\ exchanged' = exchanged + fetchEndpoint_fetches(x)
           /\ IF c.kind = "throw"
              THEN /\ other' = [other EXCEPT !.res = r, !.outcome = c, !.pc = "done"]
                   /\ this_retries' = this_retries
              ELSE /\ other' = [other EXCEPT !.res = r, !.retries = d.retries,
                                             !.onchain = t.onchain,
                                             !.pc = IF t.onchain THEN "finalwait" ELSE "wait"]
                   /\ this_retries' = d.this_retries
    /\ UNCHANGED <<optRetries, chain, dispatcher, session>>

finalWait2_resolves ==
    /\ other.pc = "finalwait"
    /\ other' = [other EXCEPT !.outcome = waitForTransaction_result(other.res), !.pc = "done"]
    /\ UNCHANGED <<client, chain, dispatcher, session, exchanged>>

Next ==
    \/ \E x \in ChainIdExchanges : getChainId_settles(x)
    \/ \E x \in Exchanges : callEndpoint(x)
    \/ waitForTransaction_call
    \/ wait_resolves
    \/ \E x \in ReceiptExchanges : getTransactionReceipt_settles(x)
    \/ finalWait_resolves

Spec == Init /\ [][Next]_vars

\* two waitForTransaction calls running interleaved on one client
NextConcurrent ==
    \/ waitForTransaction_call
    \/ wait_resolves
    \/ \E x \in ReceiptExchanges : getTransactionReceipt_settles(x)
    \/ finalWait_resolves
    \/ waitForTransaction2_call
    \/ wait2_resolves
    \/ \E x \in ReceiptExchanges : getTransactionReceipt2_settles(x)
    \/ finalWait2_resolves

SpecConcurrent == Init /\ [][NextConcurrent]_vars

TypeOK ==
    /\ this_retries \in Nat
    /\ pc \in {"idle", "wait", "fetch", "finalwait", "done"}
    /\ fetches \in 0..MaxFetches
    /\ outcome.kind \in {"none", "return", "throw"}

----------------------------------------------------------------------------
(* Properties *)

\* the status classes as the specification lists them
SuccessTerminal == {"ACCEPTED_ON_L1", "ACCEPTED_ON_L2", "PENDING"}
FailureTerminal == {"REJECTED", "NOT_RECEIVED"}

\* the latest receipt fetch returned a receipt whose status is in S
Fetched(S) == res.kind = "return" /\ res.value.status \in S

\* the session is in the poll loop (suspended in wait or awaiting a fetch)
Waiting == pc \in {"wait", "fetch"}

\* the session ended with ...
BudgetExhausted ==
    pc = "done" /\ outcome.kind = "throw" /\ IsError(outcome.error)
        /\ outcome.error.message = TimeoutMessage
TerminalRejection ==
    pc = "done" /\ outcome.kind = "throw" /\ IsError(outcome.error)
        /\ outcome.error.message \in FailureTerminal
Succeeded == pc = "done" /\ outcome.kind = "return"

\* C1: with retry budget N and no terminal status fetched, the session has
\* left the poll loop (reporting BudgetExhausted) once N+1 receipt fetches
\* have settled: it is never again suspended in the loop's wait with more
\* than N fetches behind it.
C1_ExhaustedWithinBudget ==
    /\ (pc = "wait") => fetches <= this_retries
    /\ (pc = "done" /\ fetches > this_retries /\ ~Fetched(SuccessTerminal \cup FailureTerminal))
           => BudgetExhausted

\* C2: a fetched receipt with status REJECTED or NOT_RECEIVED ends the
\* session at once with an error whose message is that status and whose
\* response is the receipt; no suspension follows that fetch and the outcome
\* is not the budget-exhaustion error.
C2_TerminalRejectionImmediate ==
    Fetched(FailureTerminal) =>
        /\ pc = "done"
        /\ outcome.kind = "throw"
        /\ IsError(outcome.error)
        /\ outcome.error.message = res.value.status
        /\ outcome.error.response = res.value
        /\ ~BudgetExhausted
        /\ waits = fetches

C2_Witness ==
    /\ Fetched({"REJECTED"}) /\ TerminalRejection
    /\ fetches = 2 /\ retries = this_retries - 1 /\ retries > 0

\* C3: the session is on the success path exactly when the latest fetch
\* returned ACCEPTED_ON_L1, ACCEPTED_ON_L2 or PENDING; REJECTED and
\* NOT_RECEIVED end it with a terminal rejection; any other fetched status
\* leaves it in the poll loop.
C3_StatusClassification ==
    /\ (pc = "finalwait" \/ Succeeded) <=> Fetched(SuccessTerminal)
    /\ Fetched(FailureTerminal) => TerminalRejection
    /\ (res.kind = "return" /\ res.value.status \notin SuccessTerminal \cup FailureTerminal)
           => Waiting

C3_Witness ==
    /\ Waiting /\ fetches >= 2 /\ Fetched({"RECEIVED", "UNKNOWN"})

C5_ZeroBudgetOneAttempt ==
    (optRetries = Num(0) /\ fetches >= 1 /\ pc # "fetch"
        /\ ~Fetched(SuccessTerminal \cup FailureTerminal))
        => (BudgetExhausted /\ fetches = 1 /\ waits = 1)

\* C6 (as claimed): when every receipt fetch returned PENDING, the session
\* ends after exactly N+1 fetches (N the retry budget) with BudgetExhausted.
C6_AllPendingExhausts ==
    (allPending /\ pc = "done") => (fetches = this_retries + 1 /\ BudgetExhausted)

\* C6 (amended): when every receipt fetch returned PENDING, the session
\* makes exactly one fetch, whatever the retry budget, and completes
\* successfully; it never reports BudgetExhausted.
C6_AllPendingSucceedsAtOnce ==
    (allPending /\ fetches >= 1 /\ pc # "fetch")
        => (fetches = 1 /\ (pc = "finalwait" \/ Succeeded) /\ ~BudgetExhausted)

C6_Witness == allPending /\ Succeeded /\ this_retries = 3 /\ fetches = 1

\* C7: at every suspension of the poll loop with budget left, the session
\* can be cancelled: a step exists that ends it there, without a further
\* fetch, with an outcome that is neither success nor BudgetExhausted nor a
\* terminal rejection.
C7_CanCancelAtSuspension ==
    (pc = "wait" /\ retries > 0) =>
        ENABLED (/\ Next
                 /\ pc' = "done"
                 /\ fetches' = fetches
                 /\ outcome'.kind \notin {"none", "return"}
                 /\ (outcome'.kind = "throw" /\ IsError(outcome'.error))
                        => outcome'.error.message
                               \notin {TimeoutMessage} \cup FailureTerminal)

\* C8: a response body whose error member is an object {code, message}
\* makes fetchEndpoint throw the error built by errorHandler, with message
\* "<code>: <message>" (for {21, "Invalid params"}: "21: Invalid params");
\* the result is not returned.
C8_NodeErrorMessage ==
    (call.k = "envelope" /\ call.error.t = "obj"
        /\ {"code", "message"} \subseteq DOMAIN call.error)
        => /\ reply.kind = "throw"
           /\ reply.error = NewError("errorHandler",
                                     ToString(call.error.code.n) \o ": "
                                         \o call.error.message.s,
                                     Undefined)
           /\ (call.error.code = Num(21) /\ call.error.message = Str("Invalid params"))
                  => reply.error.message = "21: Invalid params"

C8_Witness ==
    /\ call = Envelope([t |-> "obj", code |-> Num(21), message |-> Str("Invalid params")],
                       Undefined)
    /\ reply.kind = "throw" /\ reply.error.message = "21: Invalid params"

\* C9: a failed transport exchange makes fetchEndpoint throw the transport
\* error itself, never an error in the node-error form built by errorHandler.
C9_TransportErrorDistinct ==
    (call.k = "failure")
        => /\ reply.kind = "throw"
           /\ reply.error = call.thrown
           /\ ~(IsError(reply.error) /\ reply.error.by = "errorHandler")

\* C10: a response body with result X and a null or absent error member
\* makes fetchEndpoint return X unchanged, raising nothing.
C10_ResultUnchanged ==
    (call.k = "envelope" /\ call.error \in {Undefined, Null})
        => (reply.kind = "return" /\ reply.value = call.result)

C10_Witness ==
    call.k = "envelope" /\ call.error = Null /\ call.result = Num(7) /\ reply = Return(Num(7))

\* fetchEndpoint calls that have settled: the constructor's getChainId, the
\* caller-issued calls, and the session's receipt fetches
CompletedCalls ==
    (IF chainIdFetch = "inflight" THEN 0 ELSE 1) + callsDone
        + (IF pc = "fetch" THEN fetches - 1 ELSE fetches)
        + (IF other.pc = "fetch" THEN other.fetches - 1 ELSE other.fetches)

\* C11: every fetchEndpoint call performs exactly one transport exchange,
\* whether it returned a result, threw a node error or failed in transport:
\* the k calls settled so far produced exactly k exchanges.
C11_OneExchangePerCall == exchanged = CompletedCalls

C11_Witness ==
    /\ callsDone = 2 /\ call.k = "failure" /\ chainIdFetch = "rejected"
    /\ fetches = 3 /\ pc = "done" /\ exchanged = 6

\* C13: when every receipt fetch so far failed with a transient error, the
\* session stays in the poll loop while at most N fetches have settled (N
\* the retry budget), and fetch N+1 ends it with the budget-exhaustion
\* error, not with the fetch error.
C13_AllTransientExhausts ==
    (allTransient /\ fetches >= 1 /\ pc # "fetch")
        => IF fetches <= this_retries
           THEN pc = "wait"
           ELSE fetches = this_retries + 1 /\ BudgetExhausted

C13_Witness ==
    allTransient /\ BudgetExhausted /\ this_retries = 3 /\ fetches = 4 /\ res.kind = "throw"

\* C14: once a fetch has returned a success-terminal status the session makes
\* exactly one more suspension and no further fetch: on the success path the
\* number of suspensions is the number of fetches plus one.
C14_OneSuspensionAfterSuccess ==
    (pc = "finalwait" \/ Succeeded) => (waits = fetches + 1 /\ Fetched(SuccessTerminal))

C14_Witness == Succeeded /\ fetches = 3 /\ waits = 4

\* C15: suspensions and fetches alternate, starting with a suspension: a
\* fetch in flight is the one its suspension preceded, a session suspended
\* in the loop has one suspension more than fetches, and no session has
\* ended, or reached the final wait, without a fetch.
C15_SuspendThenFetch ==
    /\ (pc = "fetch") => waits = fetches
    /\ (pc = "wait") => waits = fetches + 1
    /\ (pc \in {"finalwait", "done"}) => (fetches >= 1 /\ waits >= fetches)

C15_Witness == pc = "fetch" /\ fetches = 3 /\ waits = 3

\* C16: fetchEndpoint throws exactly when the body's error member is present
\* and not null; 0, "" and false make it throw as well.
C16_FailsIffErrorNonNull ==
    (call.k = "envelope") => (reply.kind = "throw" <=> call.error \notin {Undefined, Null})

\* C17 (as claimed): a success-terminal fetch leaves the retry counter alone:
\* after a first fetch that returned ACCEPTED_ON_L1 the counter still equals
\* the budget.
C17_SuccessKeepsBudget ==
    ((pc = "finalwait" \/ Succeeded) /\ fetches = 1 /\ Fetched({"ACCEPTED_ON_L1"}))
        => retries = this_retries

\* C17 (amended): the iteration whose fetch returns a success-terminal status
\* decrements the counter like any other iteration that does not throw:
\* on the success path the counter is the budget minus the number of
\* fetches, so budget - 1 after a first fetch that returned ACCEPTED_ON_L1.
C17_SuccessDecrementsOnce ==
    (pc = "finalwait" \/ Succeeded)
        => /\ retries = this_retries - fetches
           /\ (fetches = 1 /\ Fetched({"ACCEPTED_ON_L1"})) => retries = this_retries - 1

C17_Witness ==
    Succeeded /\ fetches = 1 /\ Fetched({"ACCEPTED_ON_L1"}) /\ this_retries = 2 /\ retries = 1

\* a caller operation has run or is running on the constructed client
CallerOperationStarted == pc # "idle" \/ callsDone > 0

\* C18: no caller operation that runs after construction observes chainId
\* unset.
C18_ChainIdReadyBeforeUse == CallerOperationStarted => chainId # Undefined

\* C19: in every state of the poll loop the counter is in range,
\* 0 <= retries <= budget, so that the test for 0 is not skipped over.
C19_RetriesInRange == Waiting => (0 <= retries /\ retries <= this_retries)

\* C20: the session ends with a terminal rejection only if the latest fetch
\* returned a receipt with status REJECTED or NOT_RECEIVED, and the error
\* then carries that receipt; a failed fetch is never reported as one.
C20_RejectionOnlyFromReceipt ==
    TerminalRejection
        => (Fetched(FailureTerminal) /\ outcome.error.response = res.value)

\* C12: wait sessions are isolated. A session starts with its counter set
\* to the client's budget; a step of one session leaves the other session's
\* position, counter and outcome as they were; no step changes the budget.
C12_SessionsIsolated ==
    [][/\ this_retries' = this_retries
       /\ (pc = "idle" /\ pc' # "idle") => retries' = this_retries
       /\ (other.pc = "idle" /\ other'.pc # "idle") => other'.retries = this_retries
       /\ (<<pc, fetches, res>> # <<pc, fetches, res>>') => other' = other
       /\ (other' # other) => UNCHANGED <<pc, retries, onchain, res, outcome, fetches>>
       /\ (pc' = "wait" /\ pc # "idle") => retries' = this_retries - fetches
       /\ (other'.pc = "wait" /\ other.pc # "idle")
              => other'.retries = this_retries - other.fetches]_vars

C12_Witness ==
    /\ pc = "wait" /\ fetches = 2 /\ retries = this_retries - 2
    /\ other.pc = "fetch" /\ other.fetches = 2 /\ other.retries = this_retries - 1
    /\ optRetries = Num(3)

====
